---- MODULE Spec2Model ----
(***************************************************************************)
(* PopCounter (src/main.js): a microphone frame callback gates on peak     *)
(* amplitude and a cooldown, and starts the asynchronous matcher           *)
(* analyzeAndCompare, which scores the frame against the reference         *)
(* samples, decoding a reference lazily (await) on first use.              *)
(*                                                                         *)
(* JavaScript runs one handler at a time; a handler runs until it returns  *)
(* or reaches an await.  Every action below is one such run.               *)
(*                                                                         *)
(* Abstractions.                                                           *)
(*  - The FFT class is an external library.  An audio buffer is modelled   *)
(*    by the spectrum the library returns for it, so getFeatures reads     *)
(*    that spectrum off the buffer.                                        *)
(*  - A real score s is kept exactly as sgn * sqrt(n2 / d) with n2/d a     *)
(*    reduced fraction; NaN is a flag.                                     *)
(*  - Amplitudes are hundredths of full scale (THRESHOLD 0.23 is 23).      *)
(*  - The two consecutive awaits of line 85 (arrayBuffer, decodeAudioData) *)
(*    are one suspension: no statement runs between them.                  *)
(*  - storage.js is not part of the sources; the store is a sequence of    *)
(*    payloads, and getAllReferences returns {blob} records in order.      *)
(*  - refRecorder.onstop (save, then reload) is one step: nothing else     *)
(*    reads the store, and one recording is saved at a time.  The record   *)
(*    button's own state (refRecording, the recorder) is presentation.     *)
(***************************************************************************)
EXTENDS Integers, Sequences, FiniteSets, Bags, TLC

\* ---- program constants (src/main.js:8-11) ----
COOLDOWN_FRAMES == 10
THRESHOLD == 23
\* 0.95 = sqrt(361/400)
SIMILARITY_THRESHOLD == [nan |-> FALSE, sgn |-> 1, n2 |-> 361, d |-> 400]

\* ---- bounds of the model ----
\* the handlers that can count are disabled once counter reaches it
MaxCounter == 2
\* analyzeAndCompare invocations suspended at the await of line 85
MaxTasks == 2
\* payloads in the store
MaxRefs == 2
\* startCounter calls suspended at await getUserMedia
MaxStarts == 2

\* longest vector handed to cosineSimilarity when it is taken alone
MaxLen == 2

\* ---- inputs ----
SpecA == <<1, 0, 0, 0, 0>>
\* cosine(SpecA, SpecB) = 19/20, exactly the acceptance threshold
SpecB == <<19, 5, 3, 2, 1>>
\* cosine(SpecA, SpecC) = 4/5
SpecC == <<4, 3, 0, 0, 0>>
\* zero magnitude: silence, or energy only outside the bins the spectrum keeps
SpecZ == <<0, 0, 0, 0, 0>>
PopSpectra == {SpecA, SpecB, SpecC, SpecZ}
RefSpectra == {SpecA}
\* peak amplitudes of a frame: at the threshold, above it
Peaks == {23, 50}

\* a recorded payload: decodable to audio with the given spectrum, or not
BadBlob == [ok |-> FALSE, spectrum |-> <<>>]
Blobs == {[ok |-> TRUE, spectrum |-> s] : s \in RefSpectra} \cup {BadBlob}

\* ref.features of a reference that has not been decoded yet (undefined)
NoFeatures == <<>>

\* ---- numbers ----
RECURSIVE GCD(_, _)
GCD(a, b) == IF b = 0 THEN a ELSE GCD(b, a % b)

NaN == [nan |-> TRUE, sgn |-> 0, n2 |-> 0, d |-> 1]

\* the real number num / sqrt(den2), den2 > 0
Real(num, den2) ==
  LET g == GCD(num * num, den2) IN
  [nan |-> FALSE,
   sgn |-> IF num > 0 THEN 1 ELSE IF num < 0 THEN 0 - 1 ELSE 0,
   n2 |-> (num * num) \div g,
   d |-> den2 \div g]

\* JavaScript x > y on numbers: false when either is NaN
Gt(x, y) ==
  /\ ~x.nan
  /\ ~y.nan
  /\ IF x.sgn # y.sgn THEN x.sgn > y.sgn
     ELSE IF x.sgn = 1 THEN x.n2 * y.d > y.n2 * x.d
     ELSE IF x.sgn = 0 THEN FALSE
     ELSE x.n2 * y.d < y.n2 * x.d

\* ---- audio analysis ----
getFeatures(buffer) == buffer.spectrum

RECURSIVE SumProd(_, _, _)
SumProd(a, b, n) == IF n = 0 THEN 0 ELSE SumProd(a, b, n - 1) + a[n] * b[n]

\* the loop runs over vecA's indices; a missing vecB[i] is undefined and
\* makes every sum NaN; 0/0 is NaN
cosineSimilarity(vecA, vecB) ==
  LET n == Len(vecA) IN
  IF Len(vecB) < n THEN NaN
  ELSE LET dotProduct == SumProd(vecA, vecB, n)
           magA == SumProd(vecA, vecA, n)
           magB == SumProd(vecB, vecB, n)
       IN IF magA * magB = 0 THEN NaN
          ELSE Real(dotProduct, magA * magB)


\* the outcome of a call: none yet, or the number returned
NotCalled == [kind |-> "none", value |-> NaN]
Returned(value) == [kind |-> "return", value |-> value]

\* ---- state ----
VARIABLES
  counter,       \* let counter (line 4)
  running,       \* let running (line 5)
  cooldown,      \* let cooldown (line 7)
  processor,     \* the ScriptProcessor the global refers to: "none", "connected" (it
                 \* delivers frames), "disconnected" (it delivers none)
  orphaned,      \* a connected processor was overwritten in the global by a later startCounter
  starts,        \* startCounter calls suspended at await getUserMedia
  refSamples,    \* let refSamples (line 14): sequence of reference objects
  db,            \* the durable store: payloads in insertion order
  tasks,         \* bag of analyzeAndCompare invocations suspended at line 85
  status,        \* statusDiv.textContent: message kind and the bestMatch it reports
  ev,            \* history: the handler that ran last and its outcome
  sinceAccept,   \* history: frames delivered since the last ACCEPT (capped)
  call           \* a call of cosineSimilarity taken alone: arguments and outcome

vars == <<counter, running, cooldown, processor, orphaned, starts, refSamples,
          db, tasks, status, ev, sinceAccept, call>>

\* let bestMatch = { score: -1, index: -1 }
InitBest == [score |-> Real(0 - 1, 1), index |-> 0 - 1]

\* setStatus(msg), with the bestMatch interpolated into the two match messages
Status(msg, bestMatch) == [msg |-> msg, best |-> bestMatch]

Event(op, out) == [op |-> op, out |-> out]

\* a frame callback ran on input (its peak is kept) and came to out
FrameEvent(input, out) == [op |-> "frame", out |-> out, peak |-> input.peak]

\* cap of the history counter sinceAccept
SinceCap == COOLDOWN_FRAMES + 2

AfterFrame(n) == IF n < SinceCap THEN n + 1 ELSE n

\* no call of cosineSimilarity is under study
NoCall == [vecA |-> <<>>, vecB |-> <<>>, outcome |-> NotCalled]

\* ---- the durable store ----
getAllReferences == [k \in 1..Len(db) |-> [blob |-> db[k]]]

\* refsFromDB.map(r => ({ ...r, url })): fresh objects, no features field
loadReferences(refsFromDB) ==
  [k \in 1..Len(refsFromDB) |->
     [blob |-> refsFromDB[k].blob, features |-> NoFeatures, computed |-> 0]]

\* ---- analyzeAndCompare ----
\* lines 89-92
Better(bestMatch, score, i) ==
  IF Gt(score, bestMatch.score) THEN [score |-> score, index |-> i] ELSE bestMatch

\* the for loop (lines 81-93) from index i on, as far as it runs without
\* suspending: up to the first reference without features, or to the end
RECURSIVE Scan(_, _, _, _)
Scan(refs, popFeatures, bestMatch, i) ==
  IF ~(i < Len(refs)) THEN [pc |-> "verdict", bestMatch |-> bestMatch]
  ELSE LET ref == refs[i + 1] IN
       IF ref.features = NoFeatures
       THEN [pc |-> "await",
             task |-> [popFeatures |-> popFeatures, bestMatch |-> bestMatch,
                       i |-> i, ref |-> [blob |-> ref.blob, live |-> TRUE]]]
       ELSE Scan(refs, popFeatures,
                 Better(bestMatch, cosineSimilarity(popFeatures, ref.features), i),
                 i + 1)

\* line 95
Accepts(bestMatch) == Gt(bestMatch.score, SIMILARITY_THRESHOLD)

Outcome(r) ==
  IF r.pc = "await" THEN "pending"
  ELSE IF Accepts(r.bestMatch) THEN "accept" ELSE "reject"

\* Accept with the cooldown armed one frame short
AcceptShortCooldown(bestMatch) ==
  /\ counter' = counter + 1
  /\ status' = Status("matched", bestMatch)
  /\ cooldown' = COOLDOWN_FRAMES - 1

\* lines 96-99
Accept(bestMatch) ==
  /\ counter' = counter + 1
  /\ status' = Status("matched", bestMatch)
  /\ cooldown' = COOLDOWN_FRAMES

\* line 101
Reject(bestMatch) ==
  /\ status' = Status("nomatch", bestMatch)
  /\ UNCHANGED <<counter, cooldown>>

\* lines 95-102
Verdict(bestMatch) ==
  IF Accepts(bestMatch) THEN Accept(bestMatch) ELSE Reject(bestMatch)

\* where a run of the loop leaves the invocation: suspended, or at its verdict
Settle(r, rest) ==
  IF r.pc = "await"
  THEN /\ BagCardinality(rest) < MaxTasks
       /\ tasks' = rest (+) SetToBag({r.task})
       /\ UNCHANGED <<counter, cooldown, status>>
  ELSE /\ tasks' = rest
       /\ Verdict(r.bestMatch)

\* analyzeAndCompare without the early return of lines 73-76
analyzeWithoutEmptyCheck(popBuffer) ==
  LET r == Scan(refSamples, getFeatures(popBuffer), InitBest, 0) IN
  /\ Settle(r, tasks)
  /\ ev' = FrameEvent(popBuffer, Outcome(r))
  /\ sinceAccept' = IF Outcome(r) = "accept" THEN 0 ELSE AfterFrame(sinceAccept)

\* the call of analyzeAndCompare(popBuffer), up to its first await or its end
analyzeAndCompare(popBuffer) ==
  IF Len(refSamples) = 0
  THEN /\ status' = Status("noref", InitBest)
       /\ ev' = FrameEvent(popBuffer, "noref")
       /\ sinceAccept' = AfterFrame(sinceAccept)
       /\ UNCHANGED <<counter, cooldown, tasks>>
  ELSE LET r == Scan(refSamples, getFeatures(popBuffer), InitBest, 0) IN
       /\ Settle(r, tasks)
       /\ ev' = FrameEvent(popBuffer, Outcome(r))
       /\ sinceAccept' = IF Outcome(r) = "accept" THEN 0 ELSE AfterFrame(sinceAccept)

\* Cache writing through the index instead of the object held
CacheByIndex(t, features) ==
  IF t.i < Len(refSamples)
  THEN [refSamples EXCEPT ![t.i + 1].features = features,
                          ![t.i + 1].computed = @ + 1]
  ELSE refSamples

\* ref.features = getFeatures(...) (line 86): the write lands in refSamples
\* when the object the invocation holds is still the one refSamples holds
Cache(t, features) ==
  IF t.ref.live
  THEN [refSamples EXCEPT ![t.i + 1].features = features,
                          ![t.i + 1].computed = @ + 1]
  ELSE refSamples

\* the continuation of analyzeAndCompare after the await of line 85
Continue(t) ==
  LET rest == tasks (-) SetToBag({t}) IN
  IF ~t.ref.blob.ok
  THEN \* decodeAudioData rejects: the invocation ends there
       /\ tasks' = rest
       /\ ev' = Event(IF t.ref.live THEN "resume" ELSE "resume_stale", "failed")
       /\ UNCHANGED <<counter, cooldown, status, refSamples, sinceAccept>>
  ELSE LET features == getFeatures(t.ref.blob)
           refs == Cache(t, features)
           best == Better(t.bestMatch, cosineSimilarity(t.popFeatures, features), t.i)
           r == Scan(refs, t.popFeatures, best, t.i + 1)
       IN /\ refSamples' = refs
          /\ Settle(r, rest)
          /\ ev' = Event(IF t.ref.live THEN "resume" ELSE "resume_stale", Outcome(r))
          /\ sinceAccept' = IF Outcome(r) = "accept" THEN 0 ELSE sinceAccept

\* ---- handlers ----
\* onaudioprocess that triggers at the threshold too
onaudioprocessAtThreshold(input) ==
  LET max == input.peak IN
  IF cooldown > 0
  THEN /\ cooldown' = cooldown - 1
       /\ ev' = FrameEvent(input, "cooling")
       /\ sinceAccept' = AfterFrame(sinceAccept)
       /\ UNCHANGED <<counter, status, tasks>>
  ELSE IF max >= THRESHOLD
  THEN analyzeAndCompare(input)
  ELSE /\ ev' = FrameEvent(input, "quiet")
       /\ sinceAccept' = AfterFrame(sinceAccept)
       /\ UNCHANGED <<counter, cooldown, status, tasks>>

\* onaudioprocess that decrements the cooldown without testing it
onaudioprocessAlwaysDecrements(input) ==
  LET max == input.peak IN
  IF cooldown >= 0
  THEN /\ cooldown' = cooldown - 1
       /\ ev' = FrameEvent(input, "cooling")
       /\ sinceAccept' = AfterFrame(sinceAccept)
       /\ UNCHANGED <<counter, status, tasks>>
  ELSE IF max > THRESHOLD
  THEN analyzeAndCompare(input)
  ELSE /\ ev' = FrameEvent(input, "quiet")
       /\ sinceAccept' = AfterFrame(sinceAccept)
       /\ UNCHANGED <<counter, cooldown, status, tasks>>

\* processor.onaudioprocess (lines 120-133); max is the frame's peak
onaudioprocess(input) ==
  LET max == input.peak IN
  IF cooldown > 0
  THEN /\ cooldown' = cooldown - 1
       /\ ev' = FrameEvent(input, "cooling")
       /\ sinceAccept' = AfterFrame(sinceAccept)
       /\ UNCHANGED <<counter, status, tasks>>
  ELSE IF max > THRESHOLD
  THEN analyzeAndCompare(input)
  ELSE /\ ev' = FrameEvent(input, "quiet")
       /\ sinceAccept' = AfterFrame(sinceAccept)
       /\ UNCHANGED <<counter, cooldown, status, tasks>>

\* a connected processor delivers a frame
Frame ==
  /\ processor = "connected" \/ orphaned
  /\ counter < MaxCounter
  /\ \E peak \in Peaks, s \in PopSpectra :
       onaudioprocess([peak |-> peak, spectrum |-> s])
  /\ UNCHANGED <<running, processor, orphaned, starts, refSamples, db>>
  /\ UNCHANGED call

\* a decode settles and the invocation waiting for it runs on
Resume ==
  /\ counter < MaxCounter
  /\ \E t \in BagToSet(tasks) : Continue(t)
  /\ UNCHANGED <<running, processor, orphaned, starts, db>>
  /\ UNCHANGED call

\* toggleBtn.onclick with running false: startCounter runs to its await
ClickStart ==
  /\ ~running
  /\ starts < MaxStarts
  /\ starts' = starts + 1
  /\ ev' = Event("click", "start")
  /\ UNCHANGED <<counter, running, cooldown, processor, orphaned, refSamples,
                 db, tasks, status, sinceAccept>>
  /\ UNCHANGED call

\* startCounter after getUserMedia resolved (lines 109-133)
startCounter ==
  /\ processor' = "connected"
  /\ orphaned' = (orphaned \/ processor = "connected")
  /\ status' = Status("listening", InitBest)
  /\ running' = TRUE
  /\ UNCHANGED <<counter, cooldown>>

StartResolved ==
  /\ starts > 0
  /\ starts' = starts - 1
  /\ startCounter
  /\ ev' = Event("start", "ok")
  /\ UNCHANGED <<refSamples, db, tasks, sinceAccept>>
  /\ UNCHANGED call

\* where startCounter can throw: getUserMedia rejects (line 108) or the graph
\* setup throws before line 113 assigned, and the global processor is as it
\* was; or the wiring of lines 114-115 throws, and the global refers to a new
\* node that has no callback
Thrown ==
  \/ UNCHANGED <<processor, orphaned>>
  \/ /\ processor' = "disconnected"
     /\ orphaned' = (orphaned \/ processor = "connected")

\* a startCounter that sets running before it has the capture
StartFailedLeavesRunning ==
  /\ starts > 0
  /\ starts' = starts - 1
  /\ Thrown
  /\ running' = TRUE
  /\ status' = Status("denied", InitBest)
  /\ ev' = Event("start", "failed")
  /\ UNCHANGED <<counter, cooldown, refSamples, db, tasks, sinceAccept>>
  /\ UNCHANGED call

\* startCounter ending in its catch (lines 134-137)
StartFailed ==
  /\ starts > 0
  /\ starts' = starts - 1
  /\ Thrown
  /\ status' = Status("denied", InitBest)
  /\ ev' = Event("start", "failed")
  /\ UNCHANGED <<counter, running, cooldown, refSamples, db, tasks, sinceAccept>>
  /\ UNCHANGED call

\* stopCounter that also resets the counter
stopCounterResets ==
  /\ processor' = IF processor = "connected" THEN "disconnected" ELSE processor
  /\ status' = Status("stopped", InitBest)
  /\ running' = FALSE
  /\ counter' = 0
  /\ UNCHANGED <<cooldown, tasks>>

\* stopCounter (lines 140-146)
stopCounter ==
  /\ processor' = IF processor = "connected" THEN "disconnected" ELSE processor
  /\ status' = Status("stopped", InitBest)
  /\ running' = FALSE
  /\ UNCHANGED <<counter, cooldown, tasks>>

\* toggleBtn.onclick with running true
ClickStop ==
  /\ running
  /\ stopCounter
  /\ ev' = Event("click", "stop")
  /\ UNCHANGED <<orphaned, starts, refSamples, db, sinceAccept>>
  /\ UNCHANGED call

\* the objects suspended invocations hold are no longer those of refSamples
Orphaned(t) == [t EXCEPT !.ref.live = FALSE]

\* refRecorder.onstop (lines 160-164): the recording is saved and the
\* reference set reloaded from the store
RecordingSaved ==
  /\ Len(db) < MaxRefs
  /\ \E blob \in Blobs : db' = Append(db, blob)
  /\ refSamples' = loadReferences(getAllReferences')
  /\ tasks' = BagOfAll(Orphaned, tasks)
  /\ ev' = Event("record", "reloaded")
  /\ UNCHANGED <<counter, running, cooldown, processor, orphaned, starts,
                 status, sinceAccept>>
  /\ UNCHANGED call

\* ---- specification ----
\* the state once main() has run: the store holds what earlier sessions saved
Init ==
  /\ counter = 0
  /\ running = FALSE
  /\ cooldown = 0
  /\ processor = "none"
  /\ orphaned = FALSE
  /\ starts = 0
  /\ \E n \in 0..MaxRefs : db \in [1..n -> Blobs]
  /\ refSamples = loadReferences(getAllReferences)
  /\ tasks = EmptyBag
  /\ status = Status("ready", InitBest)
  /\ ev = Event("main", "done")
  /\ sinceAccept = SinceCap
  /\ call = NoCall

Next ==
  \/ Frame
  \/ Resume
  \/ ClickStart
  \/ StartResolved
  \/ StartFailed
  \/ ClickStop
  \/ RecordingSaved

Spec == Init /\ [][Next]_vars

\* ---- cosineSimilarity taken alone ----
\* components of the vectors: negative, zero, positive
Components == {0 - 1, 0, 1, 2}
Vectors == UNION {[1..n -> Components] : n \in 0..MaxLen}

\* the program part stands still at its initial state with an empty store
ScorerInit ==
  /\ counter = 0
  /\ running = FALSE
  /\ cooldown = 0
  /\ processor = "none"
  /\ orphaned = FALSE
  /\ starts = 0
  /\ db = <<>>
  /\ refSamples = loadReferences(getAllReferences)
  /\ tasks = EmptyBag
  /\ status = Status("ready", InitBest)
  /\ ev = Event("main", "done")
  /\ sinceAccept = SinceCap
  /\ \E a \in Vectors, b \in Vectors :
       call = [vecA |-> a, vecB |-> b, outcome |-> NotCalled]

\* cosineSimilarity(vecA, vecB) runs (lines 58-70): it has no throw, every
\* call returns a number
CallScorer ==
  /\ call.outcome.kind = "none"
  /\ call' = [call EXCEPT !.outcome = Returned(cosineSimilarity(call.vecA, call.vecB))]
  /\ UNCHANGED <<counter, running, cooldown, processor, orphaned, starts,
                 refSamples, db, tasks, status, ev, sinceAccept>>

ScorerNext == CallScorer

ScorerSpec == ScorerInit /\ [][ScorerNext]_vars

\* ---- vocabulary of the properties ----
\* the last handler was a frame callback that called analyzeAndCompare
StartedMatch(e) == e.op = "frame" /\ e.out \notin {"cooling", "quiet"}

\* the last handler was the continuation of a suspended analyzeAndCompare
Resumed(e) == e.op \in {"resume", "resume_stale"}

\* the last handler ended an analyzeAndCompare with a verdict
GaveVerdict(e) == e.out \in {"accept", "reject"}

\* ---- C1 ----
\* C1: a frame callback calls analyzeAndCompare only when at least
\* COOLDOWN_FRAMES frames were delivered since the last ACCEPT: the first
\* COOLDOWN_FRAMES frames after an ACCEPT start no match, whatever their peak.
C1_CooldownSuppresses ==
  [][StartedMatch(ev') => sinceAccept >= COOLDOWN_FRAMES]_vars

\* the (COOLDOWN_FRAMES + 1)-th frame after an ACCEPT started a match
C1_Witness ==
  /\ counter > 0
  /\ StartedMatch(ev)
  /\ sinceAccept = COOLDOWN_FRAMES + 1

\* ---- C2 ----
\* C2: in every step the counter either stays, or grows by exactly 1 in a step
\* that ends a match whose best score strictly exceeds SIMILARITY_THRESHOLD and
\* that sets cooldown to COOLDOWN_FRAMES; every such verdict step counts.
C2_CounterMonotone ==
  [][LET accepted == GaveVerdict(ev') /\ Gt(status'.best.score, SIMILARITY_THRESHOLD)
     IN IF accepted
        THEN counter' = counter + 1 /\ cooldown' = COOLDOWN_FRAMES
        ELSE counter' = counter]_vars

\* a second match was accepted and armed the cooldown again
C2_Witness ==
  /\ counter = 2
  /\ ev.out = "accept"
  /\ processor = "connected"
  /\ cooldown = COOLDOWN_FRAMES

\* ---- C3 ----
\* C3: when a frame callback runs, no analyzeAndCompare of an earlier frame is
\* still without its verdict, and at most one is in flight afterwards.
C3_MatchIsSynchronous ==
  [][ev'.op = "frame" => tasks = EmptyBag /\ BagCardinality(tasks') <= 1]_vars

\* ---- C4 ----
\* C4: while the detector is stopped, a match that was pending at the stop
\* changes neither the counter nor the cooldown.
C4_StopTakesPrecedence ==
  [][(~running /\ Resumed(ev')) => (counter' = counter /\ cooldown' = cooldown)]_vars

\* ---- C5 ----
\* C5: a startCounter that completes successfully while the detector is IDLE
\* (running false, no other startCounter under way) leaves it ARMED with
\* cooldown = 0.
C5_StartResetsCooldown ==
  [][(~running /\ starts = 1 /\ ev' = Event("start", "ok")) => cooldown' = 0]_vars

\* ---- C6 ----
\* C6: between two reloads, the features of a reference are computed at most
\* once.
C6_ComputedOnce ==
  \A k \in 1..Len(refSamples) : refSamples[k].computed <= 1

\* ---- C7 ----
\* C7: no analyzeAndCompare runs on after its await on a refSamples other than
\* the one it read before the await (it would score the earlier indices from
\* the old set and take the length bound and later indices from the new one).
C7_ReadsOneVersion ==
  ev.op # "resume_stale"

\* ---- C8 ----
\* C8: right after a reload no entry of refSamples has features; the write of
\* an invocation that was pending across the reload does not reach refSamples;
\* and an entry has features only by having been computed on that entry, from
\* its own payload.
C8_ReloadInvalidates ==
  /\ [](ev.op = "record" =>
          \A k \in 1..Len(refSamples) : refSamples[k].features = NoFeatures)
  /\ [](\A k \in 1..Len(refSamples) :
          refSamples[k].features # NoFeatures =>
            /\ refSamples[k].computed >= 1
            /\ refSamples[k].features = getFeatures(refSamples[k].blob))
  /\ [][ev'.op = "resume_stale" /\ ev'.out # "failed" => refSamples' = refSamples]_vars

\* a match that was pending across a reload wrote its features, and the
\* reloaded entry of the same index is still without features
C8_Witness ==
  /\ ev.op = "resume_stale"
  /\ ev.out \in {"accept", "reject", "pending"}
  /\ Len(refSamples) = 2
  /\ refSamples[1].features = NoFeatures

\* ---- C9 ----
\* C9: a frame callback that calls analyzeAndCompare with refSamples empty
\* reports "no references" and changes neither counter nor cooldown, suspends
\* no invocation and computes no features.
C9_EmptyIsNoOp ==
  [][(StartedMatch(ev') /\ refSamples = <<>>) =>
       /\ ev'.out = "noref"
       /\ status'.msg = "noref"
       /\ counter' = counter
       /\ cooldown' = cooldown
       /\ tasks' = tasks
       /\ refSamples' = refSamples]_vars

\* a triggered frame met the empty reference set
C9_Witness ==
  /\ ev.op = "frame"
  /\ ev.out = "noref"
  /\ status.msg = "noref"
  /\ refSamples = <<>>
  /\ cooldown = 0

\* ---- C10 ----
\* C10: after a match ended with a best score that does not strictly exceed
\* SIMILARITY_THRESHOLD, counter and cooldown are unchanged and the detector
\* is ARMED (cooldown = 0), so the next above-threshold frame starts a match.
C10_RejectStaysArmed ==
  [][(GaveVerdict(ev') /\ ~Gt(status'.best.score, SIMILARITY_THRESHOLD)) =>
       /\ counter' = counter
       /\ cooldown' = cooldown
       /\ cooldown' = 0]_vars

\* ---- C11 ----
\* the score of every reference of refs against popFeatures, in index order
Scores(popFeatures, refs) ==
  [k \in 1..Len(refs) |->
     cosineSimilarity(popFeatures, getFeatures(refs[k].blob))]

\* bestMatch names the first reference that attains the greatest of scores
FirstMax(bestMatch, scores) ==
  /\ bestMatch.index \in 0..(Len(scores) - 1)
  /\ scores[bestMatch.index + 1] = bestMatch.score
  /\ \A k \in 1..Len(scores) : ~Gt(scores[k], bestMatch.score)
  /\ \A k \in 1..bestMatch.index : scores[k] # bestMatch.score

\* C11: a verdict reports the maximum of the scores of all references and the
\* lowest index that attains it (the store only grows, so a verdict has scored
\* the payload of every index of refSamples, also across a reload).
C11_LowestIndexOfMaximum ==
  GaveVerdict(ev) =>
    \E s \in PopSpectra : FirstMax(status.best, Scores(s, refSamples))

\* ---- C12 ----
\* C12: a match whose decode of a reference fails is not aborted: every
\* suspended analyzeAndCompare that ends, ends with a verdict.
C12_DecodeFailureGivesVerdict ==
  [][(Resumed(ev') /\ BagCardinality(tasks') < BagCardinality(tasks)) =>
       GaveVerdict(ev')]_vars

\* ---- C13 ----
\* the vector has zero magnitude: every component is 0
ZeroMagnitude(vec) == \A k \in 1..Len(vec) : vec[k] = 0

\* the number lies in [-1, 1]
InUnitRange(x) == ~x.nan /\ x.n2 <= x.d

\* C13: for two vectors of equal length, cosineSimilarity returns 0 when
\* either has zero magnitude, and a number in [-1, 1] otherwise.
C13_DegenerateVector ==
  (call.outcome.kind # "none" /\ Len(call.vecA) = Len(call.vecB)) =>
    IF ZeroMagnitude(call.vecA) \/ ZeroMagnitude(call.vecB)
    THEN call.outcome = Returned(Real(0, 1))
    ELSE call.outcome.kind = "return" /\ InUnitRange(call.outcome.value)

\* ---- C14 ----
\* C14: a call of cosineSimilarity with vectors of different lengths ends in an
\* error, never in a returned score.
C14_LengthMismatchFails ==
  (call.outcome.kind # "none" /\ Len(call.vecA) # Len(call.vecB)) =>
    call.outcome.kind = "error"

\* ---- C15 ----
\* C15: a startCounter that fails while the detector is IDLE leaves running
\* false, leaves no processor delivering frames that did not before, and
\* changes neither counter nor cooldown nor the pending matches; afterwards a
\* click starts a new startCounter, and a started startCounter can succeed.
C15_CaptureUnavailable ==
  /\ [][(~running /\ ev' = Event("start", "failed")) =>
          /\ ~running'
          /\ processor' # "connected"
          /\ orphaned' = orphaned
          /\ counter' = counter
          /\ cooldown' = cooldown
          /\ tasks' = tasks]_vars
  /\ []((~running /\ ev = Event("start", "failed")) => ENABLED ClickStart)
  /\ [](ev = Event("click", "start") => ENABLED StartResolved)

\* a start failed in a later session, the cooldown of the last one still set
C15_Witness ==
  /\ ev = Event("start", "failed")
  /\ ~running
  /\ starts = 0
  /\ counter = 1
  /\ cooldown = COOLDOWN_FRAMES

\* ---- C16 ----
\* C16: a frame callback that finds cooldown > 0 decrements it by 1 and starts
\* no match, whatever the peak; one that finds cooldown = 0 starts a match
\* exactly when the peak strictly exceeds THRESHOLD, and with a peak at or
\* below THRESHOLD changes neither counter nor cooldown.
C16_FrameStep ==
  [][ev'.op = "frame" =>
       IF cooldown > 0
       THEN /\ cooldown' = cooldown - 1
            /\ ~StartedMatch(ev')
            /\ counter' = counter
            /\ tasks' = tasks
       ELSE /\ StartedMatch(ev') <=> ev'.peak > THRESHOLD
            /\ ev'.peak <= THRESHOLD =>
                 (counter' = counter /\ cooldown' = cooldown /\ tasks' = tasks)]_vars

\* once the cooldown of an ACCEPT ran out, a frame with its peak exactly at
\* THRESHOLD started no match
C16_Witness ==
  /\ ev.op = "frame"
  /\ ev.out = "quiet"
  /\ ev.peak = THRESHOLD
  /\ counter = 1
  /\ cooldown = 0

\* ---- C17 ----
\* C17: the counter is incremented only in a step that finds cooldown = 0, and
\* only when at least COOLDOWN_FRAMES frame callbacks ran since the increment
\* before it.
C17_NoDoubleCounting ==
  [][counter' > counter =>
       (cooldown = 0 /\ sinceAccept >= COOLDOWN_FRAMES)]_vars

\* ---- C18 ----
\* C18: at most one processor delivers frames, and none does while running is
\* false: no processor is left connected behind the global's back, and a
\* stopCounter leaves none connected.
C18_OneProcessor ==
  /\ ~(processor = "connected" /\ orphaned)
  /\ ~running => (processor # "connected" /\ ~orphaned)

\* ---- C19 ----
\* C19: a verdict reports an index of refSamples, 0..n-1, and as score the score
\* of the reference at that index against the frame.
C19_ReportedIndexValid ==
  GaveVerdict(ev) =>
    /\ status.best.index \in 0..(Len(refSamples) - 1)
    /\ \E s \in PopSpectra :
         status.best.score =
           cosineSimilarity(s, getFeatures(refSamples[status.best.index + 1].blob))

\* ---- C20 ----
\* C20: cooldown is always one of 0..COOLDOWN_FRAMES, and a step changes it
\* only by setting it to COOLDOWN_FRAMES or by taking 1 off a positive value.
C20_CooldownRange ==
  /\ [](cooldown \in 0..COOLDOWN_FRAMES)
  /\ [][cooldown' # cooldown =>
          \/ cooldown' = COOLDOWN_FRAMES
          \/ cooldown > 0 /\ cooldown' = cooldown - 1]_vars

\* the last frame of a cooldown took it to 0 while a match started before the
\* ACCEPT was still pending
C20_Witness ==
  /\ cooldown = 0
  /\ ev.op = "frame"
  /\ ev.out = "cooling"
  /\ tasks # EmptyBag
  /\ running
  /\ ~orphaned

====
